---------------------------- MODULE Spec2Model ----------------------------
(***************************************************************************)
(* Model of parse_tyc.py: the three catalogue loaders (Gaia DR2 sources    *)
(* for TYC2, the TYC2 spectral type catalogue, ASCC), the composite TYC    *)
(* key, the ASCC deduplication and the two left joins of merge_tables.     *)
(*                                                                         *)
(* Tables are sequences of rows; a row is a record.  A nullable cell is a  *)
(* record [mask, val] as in a masked column: mask = TRUE is "no value".    *)
(*                                                                         *)
(* The TYC key is an int64 in the program.  Its values exceed the integers *)
(* TLC can hold (3 * 10^9 > 2^31), so a key is kept as two limbs in base   *)
(* 10^9: the integer hi * 10^9 + lo with 0 <= lo < 10^9.  Two normalised   *)
(* limb pairs are equal exactly when the integers are.  The inputs are far *)
(* below 2^63, so the int64 arithmetic never wraps.                        *)
(***************************************************************************)
EXTENDS Integers, Sequences, FiniteSets, TLC

VARIABLES
    pc,           \* position in process_tyc / merge_tables / load_ascc
    gaiaCsv,      \* gaia/gaiadr2_tyc-result.csv as read: rows with tyc2_id text
    specCat,      \* tyc2spec catalog.dat as read by the Cds reader
    archive,      \* members of vizier/ascc.tar.gz, in archive order
    gaia,         \* result of load_gaia_tyc()
    spec,         \* result of load_tyc_spec()
    joined,       \* data after the first join (line 97)
    handleOpen,   \* the tarfile handle of load_ascc is open
    member,       \* index of the next archive member of the iteration
    sections,     \* sections returned by load_section so far
    schemaReads,  \* number of times ./ReadMe was extracted and parsed
    combined,     \* vstack of the sections
    ascc,         \* result of load_ascc()
    data,         \* data after the second join and the HD mask (lines 98-99)
    out,          \* result of process_tyc()
    raised        \* the exception that ended the run, "None" if none

vars == <<pc, gaiaCsv, specCat, archive, gaia, spec, joined, handleOpen,
          member, sections, schemaReads, combined, ascc, data, out, raised>>

-----------------------------------------------------------------------------
(* Bounds of the model.                                                    *)

MaxGaiaRows == 2

MaxSpecRows == 2

MaxAsccRows == 3

-----------------------------------------------------------------------------
(* Masked cells.                                                           *)

Cell(v) == [mask |-> FALSE, val |-> v]

Masked(v) == [mask |-> TRUE, val |-> v]

-----------------------------------------------------------------------------
(* The composite key: tyc1 + tyc2*10000 + tyc3*1000000000.                 *)

Tyc2Mult == 10000

LimbBase == 1000000000

\* tyc1 + tyc2*10000 + tyc3*1000000000 with the region multiplier mistyped.
EncodeShortRegion(tyc1, tyc2, tyc3) ==
    LET low == tyc1 + tyc2 * 1000
    IN  [hi |-> tyc3 + (low \div LimbBase), lo |-> low % LimbBase]

\* The key as the program computes it, as limbs: the low part
\* tyc1 + tyc2*10000 carries into the 10^9 digit when it reaches 10^9.
Encode(tyc1, tyc2, tyc3) ==
    LET low == tyc1 + tyc2 * Tyc2Mult
    IN  [hi |-> tyc3 + (low \div LimbBase), lo |-> low % LimbBase]

KeyLess(a, b) == a.hi < b.hi \/ (a.hi = b.hi /\ a.lo < b.lo)

-----------------------------------------------------------------------------
(* Generic table helpers.                                                  *)

Range(s) == {s[i] : i \in DOMAIN s}

\* The rows of t at the indices in I, in index order.
Take(t, I) ==
    [k \in 1..Cardinality(I) |->
        t[CHOOSE i \in I : Cardinality({j \in I : j < i}) = k - 1]]

\* Seq of all sequences over S of length lo..hi.
SeqsOf(S, lo, hi) == UNION {[1..n -> S] : n \in lo..hi}

RECURSIVE Flatten(_)
Flatten(ss) == IF ss = <<>> THEN <<>> ELSE Head(ss) \o Flatten(Tail(ss))

\* Stable argsort by TYC: position of row i in the sorted table.
RankByKey(t, i) ==
    Cardinality({j \in DOMAIN t :
        \/ KeyLess(t[j].TYC, t[i].TYC)
        \/ (t[j].TYC = t[i].TYC /\ j < i)}) + 1

SortByKey(t) ==
    [k \in DOMAIN t |-> t[CHOOSE i \in DOMAIN t : RankByKey(t, i) = k]]


-----------------------------------------------------------------------------
(* load_gaia_tyc                                                           *)

\* astype(np.int64) of one '-'-separated field, given as its decimal digits.
RECURSIVE ParseInt(_)
ParseInt(digits) ==
    IF digits = <<>> THEN 0
    ELSE ParseInt(SubSeq(digits, 1, Len(digits) - 1)) * 10 + digits[Len(digits)]

\* np.char.split(gaia['tyc2_id'], '-') ... astype(np.int64): one row of tycs.
SplitTyc2Id(tyc2_id) == [k \in DOMAIN tyc2_id |-> ParseInt(tyc2_id[k])]

\* The table load_gaia_tyc returns: TYC added, tyc2_id removed, the other
\* columns (here source_id and r_est) carried unchanged.
GaiaTable(csv) ==
    [i \in DOMAIN csv |->
        LET tycs == SplitTyc2Id(csv[i].tyc2_id)
        IN  [source_id |-> csv[i].source_id,
             r_est     |-> csv[i].r_est,
             TYC       |-> Encode(tycs[1], tycs[2], tycs[3])]]

-----------------------------------------------------------------------------
(* load_tyc_spec                                                           *)

SpecTable(cat) ==
    [i \in DOMAIN cat |->
        [SpType |-> cat[i].SpType,
         TYC    |-> Encode(cat[i].TYC1, cat[i].TYC2, cat[i].TYC3)]]

-----------------------------------------------------------------------------
(* load_ascc                                                               *)

ConvertCols == {"Bmag", "Vmag", "e_Bmag", "e_Vmag", "Jmag", "e_Jmag",
                "Hmag", "e_Hmag", "Kmag", "e_Kmag"}

IdCols == {"TYC1", "TYC2", "TYC3"}

\* A cast that loses the mask of the column.
AsFloat64Unmasked(cell) == [mask |-> FALSE, val |-> cell.val]

\* section[col].astype(np.float64), convert_unit_to(u.mag): the Cds reader
\* already delivers the magnitudes as floats in mag, so the value is kept;
\* the cast of a masked column keeps the mask of every cell.
AsFloat64(cell) == [mask |-> cell.mask, val |-> cell.val]

\* A filter that drops only the rows whose three components are all zero.
KeepRowAllZero(r) == ~(r.TYC1 = 0 /\ r.TYC2 = 0 /\ r.TYC3 = 0)

\* section[section['TYC1'] != 0]
KeepRow(r) == r.TYC1 # 0

\* The section load_section returns for the rows the reader read.
LoadSection(rows) ==
    LET kept == Take(rows, {i \in DOMAIN rows : KeepRow(rows[i])})
    IN  [i \in DOMAIN kept |->
            [c \in ((DOMAIN kept[i]) \ IdCols) \cup {"TYC"} |->
                IF c = "TYC"
                THEN Encode(kept[i].TYC1, kept[i].TYC2, kept[i].TYC3)
                ELSE IF c \in ConvertCols THEN AsFloat64(kept[i][c])
                ELSE kept[i][c]]]

\* startswith('cc') on the characters of a file name.
StartsWithCC(name) == Len(name) >= 2 /\ name[1] = "c" /\ name[2] = "c"

\* is_data(info): os.path.split always gives two parts, (head, tail).
IsData(info) == info.head = "." /\ StartsWithCC(info.tail)

\* A loader that parses the schema for the first shard only and reuses it.
ReadsAfterSectionCached(n) == IF n = 0 THEN 1 ELSE n

\* Every load_section call extracts ./ReadMe and builds a reader from it.
ReadsAfterSection(n) == n + 1

\* vstack(tables, join_type='exact'): the rows of the tables, in order.
VStack(tables) == Flatten(tables)

\* A stable argsort on TYC alone, d3 left out of the group keys.
RankByKeysNoD3(t, i) == RankByKey(t, i)

\* Stable argsort on (TYC, d3).
RankByKeys(t, i) ==
    Cardinality({j \in DOMAIN t :
        \/ KeyLess(t[j].TYC, t[i].TYC)
        \/ (t[j].TYC = t[i].TYC /\ t[j].d3 < t[i].d3)
        \/ (t[j].TYC = t[i].TYC /\ t[j].d3 = t[i].d3 /\ j < i)}) + 1

\* combined.group_by(['TYC', 'd3']): the table stably sorted on the keys.
GroupBy(t) ==
    [k \in DOMAIN t |-> t[CHOOSE i \in DOMAIN t : RankByKeys(t, i) = k]]

\* The group boundaries taken one slot too far: the first group is lost.
FirstRowsSkipGroup(g) ==
    {i \in DOMAIN g : i > 1 /\ g[i].TYC # g[i - 1].TYC}

\* The first row of each group of equal TYC in a table grouped by TYC.
FirstRows(g) == {i \in DOMAIN g : i = 1 \/ g[i].TYC # g[i - 1].TYC}

\* unique(t, keys=['TYC']): group by TYC (stable), keep each group's first.
Unique(t) == LET g == SortByKey(t) IN Take(g, FirstRows(g))

RemoveD3(t) ==
    [i \in DOMAIN t |-> [c \in (DOMAIN t[i]) \ {"d3"} |-> t[i][c]]]

\* Lines 91-92 applied to a combined table, d3 kept.
Dedup(t) == Unique(GroupBy(t))


-----------------------------------------------------------------------------
(* merge_tables                                                            *)

\* The columns a right table contributes: all but the join key.
RightCols(r) == [c \in (DOMAIN r) \ {"TYC"} |-> r[c]]

\* The right-hand columns of a left row without a match: every cell masked.
NullSpec == [SpType |-> Masked("")]

NullAscc == [c \in ConvertCols \cup {"HD"} |-> Masked(0)]

\* An inner join: a left row without a match gives no output row.
UnmatchedDropped(l, nullRight) == <<>>

\* join_type='left': a left row without a match is kept, right cells masked.
Unmatched(l, nullRight) == <<l @@ nullRight>>

\* The output rows of one left row: one per right row of the same key.
RowsFor(l, right, nullRight) ==
    LET m == Take(right, {j \in DOMAIN right : right[j].TYC = l.TYC})
    IN  IF m = <<>> THEN Unmatched(l, nullRight)
        ELSE [k \in DOMAIN m |-> l @@ RightCols(m[k])]

\* join(left, right, keys=['TYC'], join_type='left') of two non-empty
\* tables: the output is ordered by key, and within one key it is the
\* product of the left rows and the right rows of that key.
Join(left, right, nullRight) ==
    LET sl == SortByKey(left)
        sr == SortByKey(right)
    IN  Flatten([i \in DOMAIN sl |-> RowsFor(sl[i], sr, nullRight)])

\* data['HD'] == 0 on a masked column: a masked cell compares as not equal.
MaskedEq(cell, v) == IF cell.mask THEN FALSE ELSE cell.val = v

\* The mask overwritten by the comparison, the previous mask left out.
HDMaskOverwritten(cell) == MaskedEq(cell, 0)

\* np.logical_or(data['HD'].mask, data['HD'] == 0) for one cell.
HDMask(cell) == cell.mask \/ MaskedEq(cell, 0)

\* Line 99: only the mask of HD changes.
NormalizeHD(t) ==
    [i \in DOMAIN t |-> [t[i] EXCEPT !["HD"] = [mask |-> HDMask(t[i].HD),
                                                val  |-> t[i].HD.val]]]

\* data.rename_column('r_est', 'dist_use')
RenameRest(t) ==
    [i \in DOMAIN t |->
        [c \in ((DOMAIN t[i]) \ {"r_est"}) \cup {"dist_use"} |->
            IF c = "dist_use" THEN t[i].r_est ELSE t[i][c]]]


-----------------------------------------------------------------------------
(* The inputs the model draws from.                                        *)

\* tyc2_id texts, as the digits of their three '-'-separated fields:
\* 1-2-3, 2-2-1, 9999-99999-3, 0-1-0 and the out-of-range 10000-0-0.
Id123 == <<<<1>>, <<2>>, <<3>>>>

Id221 == <<<<2>>, <<2>>, <<1>>>>

IdMax == <<<<9, 9, 9, 9>>, <<9, 9, 9, 9, 9>>, <<3>>>>

Id010 == <<<<0>>, <<1>>, <<0>>>>

IdOver == <<<<1, 0, 0, 0, 0>>, <<0>>, <<0>>>>

GaiaIds == {Id123, IdMax, Id010, IdOver}

\* The rows of the csv for a sequence of tyc2_id texts; source_id and r_est
\* stand for the columns the loader carries unchanged.
GaiaRows(ids) ==
    [i \in DOMAIN ids |->
        [source_id |-> i, tyc2_id |-> ids[i], r_est |-> 100 * i]]

SpecRow(t, sp) ==
    [TYC1 |-> t[1], TYC2 |-> t[2], TYC3 |-> t[3], SpType |-> Cell(sp)]

SpecRowsWide ==
    {SpecRow(<<1, 2, 3>>, "G2V"), SpecRow(<<1, 2, 3>>, "K0"),
     SpecRow(<<9999, 99999, 3>>, "G2V"), SpecRow(<<10000, 0, 0>>, "K0")}

\* A row of a cc*.dat shard as the reader delivers it: the bands in
\* `missing` parsed as missing, the others holding v.
AsccRow(t, d3, hd, missing, v) ==
    [c \in ConvertCols \cup IdCols \cup {"d3", "HD"} |->
        CASE c = "TYC1" -> t[1]
          [] c = "TYC2" -> t[2]
          [] c = "TYC3" -> t[3]
          [] c = "d3"   -> d3
          [] c = "HD"   -> hd
          [] OTHER      -> IF c \in missing THEN Masked(0) ELSE Cell(v)]

\* Shard rows varying in identifier and discriminant.
ProtoDedup ==
    {[t |-> t, d3 |-> d, hd |-> Cell(5), missing |-> {}] :
        t \in {<<1, 2, 3>>, <<2, 2, 1>>}, d \in {1, 2}}
    \cup {[t |-> t, d3 |-> 1, hd |-> Cell(5), missing |-> {}] :
        t \in {<<0, 0, 0>>, <<0, 5, 1>>}}

\* Shard rows varying in the HD cell and in the missing bands.
ProtoMerge ==
    {[t |-> <<1, 2, 3>>, d3 |-> 1, hd |-> x.hd, missing |-> x.missing] :
        x \in {[hd |-> Cell(0), missing |-> {}],
               [hd |-> Cell(5), missing |-> {"Bmag", "e_Bmag"}],
               [hd |-> Masked(0), missing |-> {}],
               [hd |-> Cell(5), missing |-> ConvertCols]}}
    \cup {[t |-> <<2, 2, 1>>, d3 |-> 1, hd |-> x.hd, missing |-> x.missing] :
        x \in {[hd |-> Cell(5), missing |-> {}],
               [hd |-> Masked(0), missing |-> {"Jmag", "Hmag", "Kmag"}]}}

\* The rows for a sequence of prototypes; every row holds its own magnitude
\* (1000 + its position), so that two rows of the archive are never equal.
AsccRows(protos) ==
    [i \in DOMAIN protos |->
        AsccRow(protos[i].t, protos[i].d3, protos[i].hd, protos[i].missing,
                1000 + i)]

File(head, tail, rows) == [head |-> head, tail |-> tail, rows |-> rows]

ReadMe == File(".", <<"R", "e", "a", "d", "M", "e">>, <<>>)

\* One shard holding all the rows.
ArchiveOne(rows) ==
    <<ReadMe, File(".", <<"c", "c", "0", "1">>, rows)>>

\* Two shards holding the rows before and after position cut, among members
\* that are not data: the root entry, a file whose name starts with one c,
\* and a cc file below a sub-directory.
ArchiveTwo(rows, cut) ==
    <<File("", <<".">>, <<>>),
      ReadMe,
      File(".", <<"c", "c", "0", "1">>, SubSeq(rows, 1, cut)),
      File(".", <<"c", "1">>, <<>>),
      File("./sub", <<"c", "c", "0", "9">>, rows),
      File(".", <<"c", "c", "0", "2">>, SubSeq(rows, cut + 1, Len(rows)))>>

\* No data shard at all.
ArchiveNone == <<ReadMe, File(".", <<"c", "1">>, <<>>)>>

FixedSpec == <<SpecRow(<<1, 2, 3>>, "G2V")>>

\* A single shard with one row of identifier 1-2-3.
FixedArchive ==
    ArchiveOne(AsccRows(<<[t |-> <<1, 2, 3>>, d3 |-> 1, hd |-> Cell(5),
                           missing |-> {}]>>))

\* Inputs varying in the identifiers of the survey and spectral catalogues.
InputsCodec ==
    \E ids \in SeqsOf(GaiaIds, 1, MaxGaiaRows) :
    \E cat \in SeqsOf(SpecRowsWide, 0, MaxSpecRows) :
        /\ gaiaCsv = GaiaRows(ids)
        /\ specCat = cat
        /\ archive = FixedArchive

\* Inputs varying in the shards of the photometric archive.
InputsAscc ==
    /\ gaiaCsv = GaiaRows(<<Id123, Id221>>)
    /\ specCat = FixedSpec
    /\ \/ archive = ArchiveNone
       \/ \E ps \in SeqsOf(ProtoDedup, 0, MaxAsccRows) :
             \/ archive = ArchiveOne(AsccRows(ps))
             \/ \E cut \in 0..Len(ps) : archive = ArchiveTwo(AsccRows(ps), cut)

\* Inputs varying in the HD and band cells of the photometric rows.
InputsMerge ==
    /\ gaiaCsv = GaiaRows(<<Id123, Id221, IdMax>>)
    /\ specCat = FixedSpec
    /\ \E ps \in SeqsOf(ProtoMerge, 0, MaxAsccRows) :
          archive = ArchiveOne(AsccRows(ps))

-----------------------------------------------------------------------------
(* The run of process_tyc().                                               *)

NoTable == <<>>

Init ==
    /\ (InputsCodec \/ InputsAscc \/ InputsMerge)
    /\ pc = "load_gaia_tyc"
    /\ gaia = NoTable
    /\ spec = NoTable
    /\ joined = NoTable
    /\ handleOpen = FALSE
    /\ member = 1
    /\ sections = <<>>
    /\ schemaReads = 0
    /\ combined = NoTable
    /\ ascc = NoTable
    /\ data = NoTable
    /\ out = NoTable
    /\ raised = "None"

\* Lines 13-33.
LoadGaiaTyc ==
    /\ pc = "load_gaia_tyc"
    /\ gaia' = GaiaTable(gaiaCsv)
    /\ pc' = "load_tyc_spec"
    /\ UNCHANGED <<gaiaCsv, specCat, archive, spec, joined, handleOpen, member,
                   sections, schemaReads, combined, ascc, data, out, raised>>

\* Lines 35-50.
LoadTycSpec ==
    /\ pc = "load_tyc_spec"
    /\ spec' = SpecTable(specCat)
    /\ pc' = "join_spec"
    /\ UNCHANGED <<gaiaCsv, specCat, archive, gaia, joined, handleOpen, member,
                   sections, schemaReads, combined, ascc, data, out, raised>>

\* Line 97.  join() refuses an input table without rows.
JoinSpec ==
    /\ pc = "join_spec"
    /\ IF gaia = <<>> \/ spec = <<>>
       THEN /\ raised' = "ValueError"
            /\ pc' = "failed"
            /\ UNCHANGED joined
       ELSE /\ joined' = Join(gaia, spec, NullSpec)
            /\ pc' = "ascc_open"
            /\ UNCHANGED raised
    /\ UNCHANGED <<gaiaCsv, specCat, archive, gaia, spec, handleOpen, member,
                   sections, schemaReads, combined, ascc, data, out>>

\* Line 87: tarfile.open.
AsccOpen ==
    /\ pc = "ascc_open"
    /\ handleOpen' = TRUE
    /\ member' = 1
    /\ pc' = "ascc_members"
    /\ UNCHANGED <<gaiaCsv, specCat, archive, gaia, spec, joined, sections,
                   schemaReads, combined, ascc, data, out, raised>>

\* Line 88, a member that is data: load_section(tf, m), lines 54-78.
AsccLoadSection ==
    /\ pc = "ascc_members"
    /\ member <= Len(archive)
    /\ IsData(archive[member])
    /\ schemaReads' = ReadsAfterSection(schemaReads)
    /\ sections' = Append(sections, LoadSection(archive[member].rows))
    /\ member' = member + 1
    /\ UNCHANGED <<pc, gaiaCsv, specCat, archive, gaia, spec, joined,
                   handleOpen, combined, ascc, data, out, raised>>

\* Line 88, a member that is not data.
AsccSkipMember ==
    /\ pc = "ascc_members"
    /\ member <= Len(archive)
    /\ ~IsData(archive[member])
    /\ member' = member + 1
    /\ UNCHANGED <<pc, gaiaCsv, specCat, archive, gaia, spec, joined,
                   handleOpen, sections, schemaReads, combined, ascc, data,
                   out, raised>>

\* Lines 88-89 after the last member: vstack, then the with block closes
\* the archive.  vstack refuses an empty list of tables.
AsccVStack ==
    /\ pc = "ascc_members"
    /\ member > Len(archive)
    /\ handleOpen' = FALSE
    /\ IF sections = <<>>
       THEN /\ raised' = "ValueError"
            /\ pc' = "failed"
            /\ UNCHANGED combined
       ELSE /\ combined' = VStack(sections)
            /\ pc' = "ascc_unique"
            /\ UNCHANGED raised
    /\ UNCHANGED <<gaiaCsv, specCat, archive, gaia, spec, joined, member,
                   sections, schemaReads, ascc, data, out>>

\* Lines 91-93.
AsccUnique ==
    /\ pc = "ascc_unique"
    /\ ascc' = RemoveD3(Dedup(combined))
    /\ pc' = "join_ascc"
    /\ UNCHANGED <<gaiaCsv, specCat, archive, gaia, spec, joined, handleOpen,
                   member, sections, schemaReads, combined, data, out, raised>>

\* Lines 98-100.
JoinAscc ==
    /\ pc = "join_ascc"
    /\ IF ascc = <<>>
       THEN /\ raised' = "ValueError"
            /\ pc' = "failed"
            /\ UNCHANGED data
       ELSE /\ data' = NormalizeHD(Join(joined, ascc, NullAscc))
            /\ pc' = "rename"
            /\ UNCHANGED raised
    /\ UNCHANGED <<gaiaCsv, specCat, archive, gaia, spec, joined, handleOpen,
                   member, sections, schemaReads, combined, ascc, out>>

\* Lines 104-106.
ProcessTyc ==
    /\ pc = "rename"
    /\ out' = RenameRest(data)
    /\ pc' = "done"
    /\ UNCHANGED <<gaiaCsv, specCat, archive, gaia, spec, joined, handleOpen,
                   member, sections, schemaReads, combined, ascc, data, raised>>

Next ==
    \/ LoadGaiaTyc
    \/ LoadTycSpec
    \/ JoinSpec
    \/ AsccOpen
    \/ AsccLoadSection
    \/ AsccSkipMember
    \/ AsccVStack
    \/ AsccUnique
    \/ JoinAscc
    \/ ProcessTyc

Spec == Init /\ [][Next]_vars


-----------------------------------------------------------------------------
(* Vocabulary of the properties.                                           *)

PcOrder == <<"load_gaia_tyc", "load_tyc_spec", "join_spec", "ascc_open",
             "ascc_members", "ascc_unique", "join_ascc", "rename", "done">>

Pos(p) == CHOOSE k \in DOMAIN PcOrder : PcOrder[k] = p

\* The run has completed the step that starts at position p.
Past(p) == pc # "failed" /\ Pos(pc) > Pos(p)

\* The identifier triple of a csv row and of a catalogue row.
GaiaTriple(r) == SplitTyc2Id(r.tyc2_id)

CatTriple(r) == <<r.TYC1, r.TYC2, r.TYC3>>

\* group < 10000, region < 100000, sequence >= 0.
InBounds(t) == t[1] \in 0..9999 /\ t[2] \in 0..99999 /\ t[3] >= 0

\* key mod 10000, (key div 10000) mod 100000, key div 1000000000, on limbs:
\* 10^9 is a multiple of 10000 and of 10000 * 100000.
Decode(key) ==
    <<key.lo % 10000, (key.lo \div 10000) % 100000, key.hi>>

Restrict(r, cols) == [c \in cols |-> r[c]]

UniqueKeys(t) == \A i, j \in DOMAIN t : t[i].TYC = t[j].TYC => i = j

HasKey(t, key) == \E j \in DOMAIN t : t[j].TYC = key

\* The data shards of the archive, in archive order.
Shards == Take(archive, {i \in DOMAIN archive : IsData(archive[i])})

\* The rows of a shard that pass the filter of line 66, in order: row i of
\* the section comes from row i of these.
KeptRows(rows) == Take(rows, {i \in DOMAIN rows : KeepRow(rows[i])})

\* All identifier triples the three loaders have turned into keys so far,
\* each with the key it received.
Keyed ==
    {<<GaiaTriple(gaiaCsv[i]), gaia[i].TYC>> : i \in DOMAIN gaia}
    \cup {<<CatTriple(specCat[i]), spec[i].TYC>> : i \in DOMAIN spec}
    \cup UNION {{<<CatTriple(KeptRows(Shards[k].rows)[i]), sections[k][i].TYC>> :
                    i \in DOMAIN sections[k]} :
                k \in DOMAIN sections}

-----------------------------------------------------------------------------
\* C1: every identifier triple within the bounds (group < 10000, region <
\* 100000, sequence >= 0) that a loader has turned into a key decodes back
\* from that key, digit group by digit group, to the same triple; hence two
\* distinct triples within the bounds never hold the same key, in one table
\* or across the tables.
C1_RoundTrip ==
    /\ Len(gaia) \in {0, Len(gaiaCsv)}
    /\ Len(spec) \in {0, Len(specCat)}
    /\ \A k \in Keyed : InBounds(k[1]) => Decode(k[2]) = k[1]
    /\ \A k1, k2 \in Keyed :
          (InBounds(k1[1]) /\ InBounds(k2[1]) /\ k1[1] # k2[1]) => k1[2] # k2[2]

\* A run in which the survey table holds the largest triple within the
\* bounds next to another triple, and all three loaders have produced keys.
C1_Witness ==
    /\ pc = "done"
    /\ Len(gaia) = 2
    /\ gaia[1].TYC # gaia[2].TYC
    /\ \E i \in DOMAIN gaia :
          /\ GaiaTriple(gaiaCsv[i]) = <<9999, 99999, 3>>
          /\ gaia[i].TYC = [hi |-> 3, lo |-> 999999999]
    /\ \E i \in DOMAIN spec : InBounds(CatTriple(specCat[i]))
    /\ \E k \in DOMAIN sections : sections[k] # <<>>

-----------------------------------------------------------------------------
\* C5 (as claimed): once a loader has computed keys for a table in which
\* some identifier component exceeds its bound, the run has ended with a
\* RangeError.
C5_OutOfRangeFails ==
    /\ (\E i \in DOMAIN gaia : ~InBounds(GaiaTriple(gaiaCsv[i])))
          => raised = "RangeError"
    /\ (\E i \in DOMAIN spec : ~InBounds(CatTriple(specCat[i])))
          => raised = "RangeError"


-----------------------------------------------------------------------------
(* The two joins of merge_tables.                                          *)

\* The first join has been made / the second join has been made.
JoinedSpec == Past("join_spec")

JoinedAscc == Past("join_ascc")

\* Every row of left occurs in result, cut down to left's columns, exactly
\* as many times as it occurs in left, and result holds nothing else.
SameLeftRows(left, result) ==
    /\ Len(result) = Len(left)
    /\ \A r \in Range(left) :
          Cardinality({k \in DOMAIN result : Restrict(result[k], DOMAIN r) = r})
            = Cardinality({k \in DOMAIN left : left[k] = r})

-----------------------------------------------------------------------------
\* C3 (as claimed): when the right table of the first join holds more than
\* one row (of identifiers within the bounds) with the key of some left row,
\* the merge has failed with an
\* AmbiguousJoinError and no joined table exists.
C3_AmbiguousJoinFails ==
    (/\ pc \notin {"load_gaia_tyc", "load_tyc_spec", "join_spec"}
     /\ \E i \in DOMAIN gaia : \E j, k \in DOMAIN spec :
           /\ j # k /\ spec[j].TYC = gaia[i].TYC /\ spec[k].TYC = gaia[i].TYC
           /\ InBounds(CatTriple(specCat[j])) /\ InBounds(CatTriple(specCat[k])))
    => (raised = "AmbiguousJoinError" /\ joined = NoTable)


-----------------------------------------------------------------------------
(* The photometric loader.                                                 *)

\* The sections have been stacked / load_ascc has returned.
Stacked == Past("ascc_members")

AsccLoaded == Past("ascc_unique")

\* The row of the combined table that wins key `key`: the lowest d3 of the
\* key, and among the rows of that d3 the earliest.
Winner(key) ==
    CHOOSE j \in DOMAIN combined :
        /\ combined[j].TYC = key
        /\ \A k \in DOMAIN combined :
              combined[k].TYC = key =>
                  \/ combined[j].d3 < combined[k].d3
                  \/ (combined[j].d3 = combined[k].d3 /\ j <= k)

\* C4: the table load_ascc returns holds exactly the keys of the combined
\* shard rows, each once; the row of a key is the combined row of lowest d3
\* among the rows of the key, the earliest of them when several share that
\* d3; and it has no d3 column.
C4_LowestDiscriminantWins ==
    AsccLoaded =>
        /\ {ascc[i].TYC : i \in DOMAIN ascc} = {combined[j].TYC : j \in DOMAIN combined}
        /\ UniqueKeys(ascc)
        /\ \A i \in DOMAIN ascc :
              /\ "d3" \notin DOMAIN ascc[i]
              /\ ascc[i] = Restrict(combined[Winner(ascc[i].TYC)],
                                    (DOMAIN combined[1]) \ {"d3"})

\* Three combined rows of one key with d3 = 2, 1, 1: the second one wins.
C4_Witness ==
    /\ AsccLoaded
    /\ Len(combined) = 3
    /\ \A j \in DOMAIN combined : combined[j].TYC = combined[1].TYC
    /\ <<combined[1].d3, combined[2].d3, combined[3].d3>> = <<2, 1, 1>>
    /\ Len(ascc) = 1
    /\ ascc[1].Vmag = combined[2].Vmag
    /\ combined[2].Vmag # combined[3].Vmag

\* C8: lines 91 applied to its own result (d3 still there) changes nothing.
C8_DedupIdempotent ==
    Stacked =>
        /\ Dedup(Dedup(combined)) = Dedup(combined)
        /\ (AsccLoaded => ascc = RemoveD3(Dedup(Dedup(combined))))

\* A combined table of three rows and two keys, deduplicated to two rows.
C8_Witness ==
    /\ AsccLoaded
    /\ Len(combined) = 3
    /\ Len(Dedup(combined)) = 2
    /\ Len(ascc) = 2

\* The columns of a shard row that survive load_section unchanged in name.
SectionCols == ConvertCols \cup {"d3", "HD"}

\* C6 (as claimed): a section holds exactly the rows of its shard that are
\* not all-zero in (TYC1, TYC2, TYC3), and no row of key 0.
C6_AllZeroFilter ==
    \A k \in DOMAIN sections :
        LET rows == Shards[k].rows
            nonzero == Take(rows, {i \in DOMAIN rows :
                                     CatTriple(rows[i]) # <<0, 0, 0>>})
        IN  /\ Len(sections[k]) = Len(nonzero)
            /\ \A i \in DOMAIN sections[k] :
                  /\ Restrict(sections[k][i], SectionCols)
                       = Restrict(nonzero[i], SectionCols)
                  /\ sections[k][i].TYC # [hi |-> 0, lo |-> 0]

\* C6 (amended): a section holds exactly the rows of its shard whose TYC1 is
\* not 0, in shard order and with their cells, whatever TYC2 and TYC3 are;
\* a row with TYC1 = 0 is dropped even when TYC2 or TYC3 is not 0; and no
\* row of a section or of the loader's result has key 0.
C6_Tyc1Filter ==
    /\ \A k \in DOMAIN sections :
          LET rows == Shards[k].rows
              nonzero == Take(rows, {i \in DOMAIN rows : rows[i].TYC1 # 0})
          IN  /\ Len(sections[k]) = Len(nonzero)
              /\ \A i \in DOMAIN sections[k] :
                    /\ Restrict(sections[k][i], SectionCols)
                         = Restrict(nonzero[i], SectionCols)
                    /\ sections[k][i].TYC # [hi |-> 0, lo |-> 0]
    /\ \A i \in DOMAIN ascc : ascc[i].TYC # [hi |-> 0, lo |-> 0]

\* A loaded shard of three rows: an all-zero one, one with TYC1 = 0 and
\* TYC2 = 5, and one with TYC1 = 1, of which only the last is kept.
C6_Witness ==
    /\ AsccLoaded
    /\ \E k \in DOMAIN sections :
          /\ {CatTriple(r) : r \in Range(Shards[k].rows)}
                = {<<0, 0, 0>>, <<0, 5, 1>>, <<1, 2, 3>>}
          /\ Len(sections[k]) = 1
    /\ Len(ascc) = 1


-----------------------------------------------------------------------------
(* The merged table.                                                       *)

\* The table of the second join before line 99 touches the HD mask.
BeforeHDMask == Join(joined, ascc, NullAscc)

\* C7: in the merged table no HD cell is valid and 0; against the table the
\* second join produced, a cell that was masked stays masked, a cell holding
\* 0 is masked, a valid cell holding another value keeps mask and value, and
\* nothing else of the row changes.  The renamed result keeps these cells.
C7_SentinelNormalized ==
    JoinedAscc =>
        LET table == BeforeHDMask IN
        /\ Len(data) = Len(table)
        /\ \A i \in DOMAIN data :
              LET before == table[i] IN
              /\ ~(~data[i].HD.mask /\ data[i].HD.val = 0)
              /\ before.HD.mask => data[i].HD.mask
              /\ (~before.HD.mask /\ before.HD.val = 0) => data[i].HD.mask
              /\ (~before.HD.mask /\ before.HD.val # 0) => data[i].HD = before.HD
              /\ Restrict(data[i], (DOMAIN before) \ {"HD"})
                   = Restrict(before, (DOMAIN before) \ {"HD"})
              /\ pc = "done" => out[i].HD = data[i].HD

\* A finished merge whose join gave a valid HD of 0, an HD the reader had
\* marked missing, and an HD masked for want of a match.
C7_Witness ==
    /\ pc = "done"
    /\ Len(data) = 3
    /\ \E i \in DOMAIN data : BeforeHDMask[i].HD = Cell(0) /\ data[i].HD.mask
    /\ \E i \in DOMAIN data :
          HasKey(ascc, data[i].TYC) /\ BeforeHDMask[i].HD.mask /\ data[i].HD.mask
    /\ \E i \in DOMAIN data : ~HasKey(ascc, data[i].TYC) /\ data[i].HD.mask

\* C9 (as claimed): in every row of the merged table the ten band cells are
\* all valid or all masked.
C9_BandsAsBlock ==
    JoinedAscc =>
        \A i \in DOMAIN data : \A c1, c2 \in ConvertCols :
            data[i][c1].mask = data[i][c2].mask

\* C9 (amended): a merged row without a photometric match has all ten band
\* cells masked; a merged row with a match holds, band by band, the mask and
\* the value of one photometric shard row of its key, so that a band the
\* reader found missing is masked next to bands that are valid.
C9_BandsPerCell ==
    JoinedAscc =>
        \A i \in DOMAIN data :
            IF HasKey(ascc, data[i].TYC)
            THEN \E k \in DOMAIN Shards : \E r \in Range(Shards[k].rows) :
                    /\ r.TYC1 # 0
                    /\ Encode(r.TYC1, r.TYC2, r.TYC3) = data[i].TYC
                    /\ \A c \in ConvertCols : data[i][c] = r[c]
            ELSE \A c \in ConvertCols : data[i][c].mask

\* A finished merge with a row whose Bmag is masked and whose Vmag is valid,
\* a row with all bands valid or all masked by the reader, and a row without
\* a photometric match.
C9_Witness ==
    /\ pc = "done"
    /\ \E i \in DOMAIN data :
          HasKey(ascc, data[i].TYC) /\ data[i].Bmag.mask /\ ~data[i].Vmag.mask
    /\ \E i \in DOMAIN data :
          ~HasKey(ascc, data[i].TYC) /\ data[i].Bmag.mask /\ data[i].Vmag.mask

-----------------------------------------------------------------------------
\* The number of data shards among the members iterated so far.
ShardsSeen ==
    Cardinality({i \in DOMAIN archive : i < member /\ IsData(archive[i])})

\* C10 (as claimed): once load_ascc has gone through an archive of N >= 1
\* shards, the schema description was read exactly once, and the archive
\* handle is closed.
C10_SchemaReadOnce ==
    (Stacked /\ Len(Shards) >= 1) => (schemaReads = 1 /\ ~handleOpen)

\* C10 (amended): the schema description is read once per data shard: after
\* each member the number of reads is the number of shards loaded so far,
\* every section was decoded, and when load_ascc has gone through an archive
\* of N shards it has read the schema N times and the handle is closed.
C10_SchemaReadPerShard ==
    /\ schemaReads = ShardsSeen
    /\ Len(sections) = schemaReads
    /\ Stacked => (schemaReads = Len(Shards) /\ ~handleOpen)
    /\ pc = "failed" => ~handleOpen
    /\ handleOpen => pc = "ascc_members"

\* load_ascc has returned after loading two shards, each with its own read.
C10_Witness ==
    /\ AsccLoaded
    /\ Len(Shards) = 2
    /\ schemaReads = 2
    /\ ~handleOpen

=============================================================================
